---- MODULE Spec2Model ----
(***************************************************************************)
(* A model of Coneko/stack: the changeset description parser               *)
(* (src/src/changeset.rs) and the `up` pipeline (src/src/main.rs).         *)
(*                                                                         *)
(* Strings are sequences of one-character strings, so that splitting,      *)
(* prefix tests, regex matching and number parsing are computed rather     *)
(* than assumed.                                                           *)
(***************************************************************************)
EXTENDS Integers, Sequences, FiniteSets, TLC

(***************************************************************************)
(* Bounds of the model.                                                    *)
(***************************************************************************)
\* longest comma-separated list handed to parse_pull_request on its own
MaxList == 2
\* most lines of a changeset description handed to new_from_string
MaxLines == 4
\* most runs of `stack up` against one repository
MaxRuns == 2
\* most credential requests libgit2 makes during one push
MaxCredCalls == 2

(***************************************************************************)
(* Strings.                                                                *)
(***************************************************************************)
Digits == <<"0", "1", "2", "3", "4", "5", "6", "7", "8", "9">>

IsDigit(c) == \E i \in 1..Len(Digits) : Digits[i] = c

DigitVal(c) == (CHOOSE i \in 1..Len(Digits) : Digits[i] = c) - 1

\* the characters of the model's alphabet that the regex class \s matches
IsSpace(c) == c \in {" ", "\t"}

Sub(s, a, b) == SubSeq(s, a, b)

\* str::starts_with
StartsWith(s, p) == Len(s) >= Len(p) /\ \A i \in 1..Len(p) : s[i] = p[i]

\* [&str]::join
RECURSIVE Join(_, _)
Join(ss, sep) ==
    IF ss = <<>> THEN <<>>
    ELSE IF Len(ss) = 1 THEN Head(ss)
    ELSE Head(ss) \o sep \o Join(Tail(ss), sep)

\* the pieces of s from position start on, i the position being read
RECURSIVE SplitFrom(_, _, _, _)
SplitFrom(s, c, i, start) ==
    IF i > Len(s) THEN <<Sub(s, start, Len(s))>>
    ELSE IF s[i] = c THEN <<Sub(s, start, i - 1)>> \o SplitFrom(s, c, i + 1, i + 1)
    ELSE SplitFrom(s, c, i + 1, start)

\* str::split(c): the pieces between occurrences of c; never empty
Split(s, c) == SplitFrom(s, c, 1, 1)

\* str::lines: split at "\n"; a final empty piece is dropped
\* (the alphabet of the model holds no "\r")
Lines(s) ==
    LET pieces == Split(s, "\n")
    IN  IF pieces[Len(pieces)] = <<>> THEN Sub(pieces, 1, Len(pieces) - 1) ELSE pieces

(***************************************************************************)
(* Results: Ok(v) and Err(description, args). An error's description is    *)
(* the format string of the message, args the values interpolated in it.  *)
(***************************************************************************)
Ok(v) == [ok |-> TRUE, value |-> v]

Err(description, args) == [ok |-> FALSE, description |-> description, args |-> args]

None == [some |-> FALSE]

Some(v) == [some |-> TRUE, value |-> v]

(***************************************************************************)
(* u64::from_str on a non-empty string of decimal digits.                  *)
(***************************************************************************)
U64MaxDigits == <<"1", "8", "4", "4", "6", "7", "4", "4", "0", "7", "3", "7", "0", "9", "5", "5", "1", "6", "1", "5">>

RECURSIVE StripZeros(_)
StripZeros(ds) ==
    IF Len(ds) > 1 /\ Head(ds) = "0" THEN StripZeros(Tail(ds)) ELSE ds

\* a and b are digit strings of the same length
DigitsGreater(a, b) ==
    \E i \in 1..Len(a) :
        /\ \A j \in 1..(i - 1) : a[j] = b[j]
        /\ DigitVal(a[i]) > DigitVal(b[i])

RECURSIVE DecimalValue(_, _)
DecimalValue(ds, acc) ==
    IF ds = <<>> THEN acc ELSE DecimalValue(Tail(ds), acc * 10 + DigitVal(Head(ds)))

ParseU64(ds) ==
    LET sig == StripZeros(ds)
    IN  IF \/ Len(sig) > Len(U64MaxDigits)
           \/ (Len(sig) = Len(U64MaxDigits) /\ DigitsGreater(sig, U64MaxDigits))
        THEN Err("number too large to fit in target type", <<>>)
        ELSE Ok(DecimalValue(sig, 0))

(***************************************************************************)
(* The pull request regex of parse_pull_request.                           *)
(*   ^\s*(https://github.com/{}/{}/pull/|http://github.com/{0}/{1}/pull/|#)?(?P<pr_number>[0-9]+)\s*$ *)
(* github_owner and github_repo are interpolated as they are, so their     *)
(* characters are read as regex syntax, like those of the host name. Of    *)
(* the regex metacharacters the model's alphabet holds only ".".           *)
(***************************************************************************)
HttpsHost == <<"h", "t", "t", "p", "s", ":", "/", "/", "g", "i", "t", "h", "u", "b", ".", "c", "o", "m", "/">>

HttpHost == <<"h", "t", "t", "p", ":", "/", "/", "g", "i", "t", "h", "u", "b", ".", "c", "o", "m", "/">>

PullPath == <<"/", "p", "u", "l", "l", "/">>

\* the three alternatives of the optional group, as pattern text
PullRequestPattern(github_owner, github_repo) ==
    << HttpsHost \o github_owner \o <<"/">> \o github_repo \o PullPath,
       HttpHost \o github_owner \o <<"/">> \o github_repo \o PullPath,
       <<"#">> >>

\* one character of pattern text against one character of input
AtomMatches(p, c) == IF p = "." THEN c # "\n" ELSE p = c

\* a sequence of pattern characters against the input s[a+1..b]
AlternativeMatches(pat, s, a, b) ==
    /\ b - a = Len(pat)
    /\ \A i \in 1..Len(pat) : AtomMatches(pat[i], s[a + i])

\* Regex::captures(...).name("pr_number"): s is matched as
\*   s[1..i] in \s*, s[i+1..j] by the optional group, s[j+1..k] in [0-9]+,
\*   s[k+1..] in \s*
RegexCaptures(pattern, s) ==
    LET n  == Len(s)
        Is == {i \in 0..n : \A t \in 1..i : IsSpace(s[t])}
        Js(i) == {j \in i..n :
                    \/ j = i
                    \/ \E a \in 1..Len(pattern) : AlternativeMatches(pattern[a], s, i, j)}
        Ks(j) == {k \in (j + 1)..n :
                    /\ \A t \in (j + 1)..k : IsDigit(s[t])
                    /\ \A t \in (k + 1)..n : IsSpace(s[t])}
        found == UNION {UNION {{Sub(s, j + 1, k) : k \in Ks(j)} : j \in Js(i)} : i \in Is}
    IN  IF found = {} THEN None ELSE Some(CHOOSE d \in found : TRUE)

(***************************************************************************)
(* Changeset::parse_pull_request                                           *)
(***************************************************************************)
RECURSIVE ParseEach(_, _, _, _)
ParseEach(pieces, pattern, string, result) ==
    IF pieces = <<>> THEN Ok(result)
    ELSE LET captures == RegexCaptures(pattern, Head(pieces))
         IN  IF ~captures.some
             THEN Err("Could not extract pull request number in 'Pull request' field: '{}'.",
                      <<string>>)
             ELSE LET pr_number == ParseU64(captures.value)
                  IN  IF ~pr_number.ok
                      THEN Err("Could not parse pull request number from 'Pull request' field: '{}'.",
                               <<captures.value>>)
                      ELSE ParseEach(Tail(pieces), pattern, string,
                                     Append(result, pr_number.value))

parse_pull_request(string, github_owner, github_repo) ==
    ParseEach(Split(string, ","), PullRequestPattern(github_owner, github_repo), string, <<>>)

(***************************************************************************)
(* Changeset::new_from_string. The loop's locals are the fields of st.    *)
(***************************************************************************)
pull_request_field_marker == <<"P", "u", "l", "l", " ", "r", "e", "q", "u", "e", "s", "t", ":">>

dependency_field_marker == <<"D", "e", "p", "e", "n", "d", "s", " ", "o", "n", ":">>

\* the locals before the loop
NewLocals == [title |-> None, message |-> <<>>, pr |-> None, dependencies |-> <<>>]

\* FreeTextArm with `message.insert(0, x)` for `message.push(x)`
FreeTextArm_Prepend(x, st) ==
    IF st.title.some
    THEN Ok([st EXCEPT !.message = <<x>> \o st.message])
    ELSE Ok([st EXCEPT !.title = Some(x)])

\* the arm `x => match title`
FreeTextArm(x, st) ==
    IF st.title.some
    THEN Ok([st EXCEPT !.message = Append(st.message, x)])
    ELSE Ok([st EXCEPT !.title = Some(x)])

\* PullRequestArm without the arm `Some(_) => bail!(..)` of `match pr`
PullRequestArm_Overwrite(x, string, github_owner, github_repo, st) ==
    LET prs == parse_pull_request(Sub(x, Len(pull_request_field_marker) + 1, Len(x)),
                                  github_owner, github_repo)
    IN  IF prs.ok
        THEN IF Len(prs.value) # 1
             THEN Err("'Pull request' field must specify exactly one pull request:\n{}",
                      <<string>>)
             ELSE Ok([st EXCEPT !.pr = Some(prs.value[1])])
        ELSE Err("Could not parse pull request number from 'Pull request' field: '{}'.",
                 <<x>>)

\* PullRequestArm with `prs.len() < 1` for `prs.len() != 1`
PullRequestArm_FirstOfMany(x, string, github_owner, github_repo, st) ==
    IF st.pr.some
    THEN Err("Multiple 'Pull request' fields found in changeset description:\n{}", <<string>>)
    ELSE LET prs == parse_pull_request(Sub(x, Len(pull_request_field_marker) + 1, Len(x)),
                                       github_owner, github_repo)
         IN  IF prs.ok
             THEN IF Len(prs.value) < 1
                  THEN Err("'Pull request' field must specify exactly one pull request:\n{}",
                           <<string>>)
                  ELSE Ok([st EXCEPT !.pr = Some(prs.value[1])])
             ELSE Err("Could not parse pull request number from 'Pull request' field: '{}'.",
                      <<x>>)

\* the arm `x if x.starts_with(pull_request_field_marker)`
PullRequestArm(x, string, github_owner, github_repo, st) ==
    IF st.pr.some
    THEN Err("Multiple 'Pull request' fields found in changeset description:\n{}", <<string>>)
    ELSE LET prs == parse_pull_request(Sub(x, Len(pull_request_field_marker) + 1, Len(x)),
                                       github_owner, github_repo)
         IN  IF prs.ok
             THEN IF Len(prs.value) # 1
                  THEN Err("'Pull request' field must specify exactly one pull request:\n{}",
                           <<string>>)
                  ELSE Ok([st EXCEPT !.pr = Some(prs.value[1])])
             ELSE Err("Could not parse pull request number from 'Pull request' field: '{}'.",
                      <<x>>)

\* DependencyArm without its arm: the line falls through to `x => match title`
DependencyArm_FallThrough(x, string, github_owner, github_repo, st) == FreeTextArm(x, st)

\* the arm `x if x.starts_with(dependency_field_marker) => ()`
DependencyArm(x, string, github_owner, github_repo, st) == Ok(st)

\* MatchLine skipping '#' lines only while the title is not yet read
MatchLine_CommentInBody(x, string, github_owner, github_repo, st) ==
    IF x = <<>> THEN Ok(st)
    ELSE IF StartsWith(x, <<"#">>) /\ ~st.title.some THEN Ok(st)
    ELSE IF StartsWith(x, pull_request_field_marker)
         THEN PullRequestArm(x, string, github_owner, github_repo, st)
    ELSE IF StartsWith(x, dependency_field_marker)
         THEN DependencyArm(x, string, github_owner, github_repo, st)
    ELSE FreeTextArm(x, st)

\* one iteration of `for line in lines`
MatchLine(x, string, github_owner, github_repo, st) ==
    IF x = <<>> THEN Ok(st)
    ELSE IF StartsWith(x, <<"#">>) THEN Ok(st)
    ELSE IF StartsWith(x, pull_request_field_marker)
         THEN PullRequestArm(x, string, github_owner, github_repo, st)
    ELSE IF StartsWith(x, dependency_field_marker)
         THEN DependencyArm(x, string, github_owner, github_repo, st)
    ELSE FreeTextArm(x, st)

\* after the loop: the title is required, an empty message is None
BuildChangeset(string, st) ==
    IF ~st.title.some
    THEN Err("Could not parse title from changeset description:\n{}", <<string>>)
    ELSE Ok([title        |-> st.title.value,
             message      |-> IF st.message = <<>> THEN None
                              ELSE Some(Join(st.message, <<"\n">>)),
             pr           |-> st.pr,
             dependencies |-> st.dependencies])

RECURSIVE ForLines(_, _, _, _, _)
ForLines(lines, string, github_owner, github_repo, st) ==
    IF lines = <<>> THEN BuildChangeset(string, st)
    ELSE LET r == MatchLine(Head(lines), string, github_owner, github_repo, st)
         IN  IF r.ok THEN ForLines(Tail(lines), string, github_owner, github_repo, r.value)
             ELSE r

new_from_string(string, github_owner, github_repo) ==
    ForLines(Lines(string), string, github_owner, github_repo, NewLocals)

(***************************************************************************)
(* State.                                                                  *)
(*   string, github_owner, github_repo, returned: the arguments and the    *)
(*     result of one call of parse_pull_request or new_from_string;        *)
(*   env: the process environment; repo: what git2 finds on disk;          *)
(*   branches, remote: the local branches and those of origin, as sets of  *)
(*     <<name, commit id>>; pulls: the pull requests the forge created;    *)
(*   pc, locals, exit: the position in run_up, its locals and its result;  *)
(*   runs: the runs of `stack up` so far; log: the calls the current run   *)
(*     has made to the editor, the repository, origin and the forge.       *)
(***************************************************************************)
VARIABLES string, github_owner, github_repo, returned,
          env, repo, branches, remote, pulls,
          pc, locals, exit, runs, log

vars == <<string, github_owner, github_repo, returned,
          env, repo, branches, remote, pulls, pc, locals, exit, runs, log>>

callVars == <<string, github_owner, github_repo, returned>>

runVars == <<env, repo, branches, remote, pulls, pc, locals, exit, runs, log>>

(***************************************************************************)
(* run_up: the origin url regex                                            *)
(*   ^git@github\.com:(?P<owner>[^/]+)/(?P<repo>.+)\.git$                  *)
(***************************************************************************)
GitAtHost == <<"g", "i", "t", "@", "g", "i", "t", "h", "u", "b", ".", "c", "o", "m", ":">>

DotGit == <<".", "g", "i", "t">>

\* re.captures(origin_url): owner is s[a+1..b-1] with no "/", s[b] = "/",
\* repo is s[b+1..n-4], not empty, and s ends with ".git"
OriginCaptures(origin_url) ==
    LET n == Len(origin_url)
        a == Len(GitAtHost)
        Bs == {b \in (a + 2)..n :
                 /\ origin_url[b] = "/"
                 /\ \A t \in (a + 1)..(b - 1) : origin_url[t] # "/"
                 /\ n - Len(DotGit) > b
                 /\ Sub(origin_url, n - Len(DotGit) + 1, n) = DotGit}
    IN  IF StartsWith(origin_url, GitAtHost) /\ Bs # {}
        THEN LET b == CHOOSE x \in Bs : TRUE
             IN  Some([owner |-> Sub(origin_url, a + 1, b - 1),
                       repo  |-> Sub(origin_url, b + 1, n - Len(DotGit))])
        ELSE None

(***************************************************************************)
(* push_options: the credentials callback                                  *)
(***************************************************************************)
CredentialTypes == {"SSH_KEY", "USER_PASS_PLAINTEXT", "DEFAULT"}

IdRsa == <<"/", ".", "s", "s", "h", "/", "i", "d", "_", "r", "s", "a">>

\* the closure leaving tried_agent as it was after offering the agent
Credentials_AgentAgain(allowed_types, tried_agent, username_from_url, helper_username, home) ==
    IF "SSH_KEY" \in allowed_types
    THEN LET user == IF username_from_url.some THEN username_from_url.value
                     ELSE IF helper_username.some THEN helper_username.value
                     ELSE <<"g", "i", "t">>
         IN  IF ~tried_agent
             THEN [cred |-> Ok([kind |-> "ssh_key_from_agent", user |-> user]),
                   tried_agent |-> tried_agent]
             ELSE IF home.some
                  THEN [cred |-> Ok([kind |-> "ssh_key", user |-> user,
                                     privatekey |-> home.value \o IdRsa]),
                        tried_agent |-> tried_agent]
                  ELSE [cred |-> Err("Could not get user home directory:\n{}", <<"NotPresent">>),
                        tried_agent |-> tried_agent]
    ELSE IF "USER_PASS_PLAINTEXT" \in allowed_types
         THEN [cred |-> Ok([kind |-> "credential_helper"]), tried_agent |-> tried_agent]
    ELSE IF "DEFAULT" \in allowed_types
         THEN [cred |-> Ok([kind |-> "default"]), tried_agent |-> tried_agent]
    ELSE [cred |-> Err("no authentication available", <<>>), tried_agent |-> tried_agent]

\* the closure with the DEFAULT test ahead of the USER_PASS_PLAINTEXT test
Credentials_DefaultFirst(allowed_types, tried_agent, username_from_url, helper_username, home) ==
    IF "SSH_KEY" \in allowed_types
    THEN LET user == IF username_from_url.some THEN username_from_url.value
                     ELSE IF helper_username.some THEN helper_username.value
                     ELSE <<"g", "i", "t">>
         IN  IF ~tried_agent
             THEN [cred |-> Ok([kind |-> "ssh_key_from_agent", user |-> user]),
                   tried_agent |-> TRUE]
             ELSE IF home.some
                  THEN [cred |-> Ok([kind |-> "ssh_key", user |-> user,
                                     privatekey |-> home.value \o IdRsa]),
                        tried_agent |-> tried_agent]
                  ELSE [cred |-> Err("Could not get user home directory:\n{}", <<"NotPresent">>),
                        tried_agent |-> tried_agent]
    ELSE IF "DEFAULT" \in allowed_types
         THEN [cred |-> Ok([kind |-> "default"]), tried_agent |-> tried_agent]
    ELSE IF "USER_PASS_PLAINTEXT" \in allowed_types
         THEN [cred |-> Ok([kind |-> "credential_helper"]), tried_agent |-> tried_agent]
    ELSE [cred |-> Err("no authentication available", <<>>), tried_agent |-> tried_agent]

\* the closure: its result and the tried_agent it leaves behind
Credentials(allowed_types, tried_agent, username_from_url, helper_username, home) ==
    IF "SSH_KEY" \in allowed_types
    THEN LET user == IF username_from_url.some THEN username_from_url.value
                     ELSE IF helper_username.some THEN helper_username.value
                     ELSE <<"g", "i", "t">>
         IN  IF ~tried_agent
             THEN [cred |-> Ok([kind |-> "ssh_key_from_agent", user |-> user]),
                   tried_agent |-> TRUE]
             ELSE IF home.some
                  THEN [cred |-> Ok([kind |-> "ssh_key", user |-> user,
                                     privatekey |-> home.value \o IdRsa]),
                        tried_agent |-> tried_agent]
                  ELSE [cred |-> Err("Could not get user home directory:\n{}", <<"NotPresent">>),
                        tried_agent |-> tried_agent]
    ELSE IF "USER_PASS_PLAINTEXT" \in allowed_types
         THEN [cred |-> Ok([kind |-> "credential_helper"]), tried_agent |-> tried_agent]
    ELSE IF "DEFAULT" \in allowed_types
         THEN [cred |-> Ok([kind |-> "default"]), tried_agent |-> tried_agent]
    ELSE [cred |-> Err("no authentication available", <<>>), tried_agent |-> tried_agent]

\* the user name libgit2 reads from an scp-like url, user@host:path
UsernameFromUrl(url) ==
    IF \E i \in 1..Len(url) : url[i] = "@"
    THEN Some(Sub(url, 1, (CHOOSE i \in 1..Len(url) :
                              url[i] = "@" /\ \A t \in 1..(i - 1) : url[t] # "@") - 1))
    ELSE None

\* new_from_editor without the `if rc.success()` test: the buffer is parsed
\* whatever the exit status of the editor
new_from_editor_AnyStatus(outcome, owner, repo_name) ==
    IF outcome.kind = "tmpfile_failed"
    THEN Err("Failed to create new temporary file.", <<>>)
    ELSE IF outcome.kind = "spawn_failed"
    THEN Err("Could not open temporary file '{}' with editor '{}'.", <<>>)
    ELSE IF outcome.kind = "success" /\ ~outcome.readable
    THEN Err("Could not read contents of temporary file '{}' opened with editor '{}'.", <<>>)
    ELSE new_from_string(outcome.buf, owner, repo_name)

(***************************************************************************)
(* Changeset::new_from_editor. What the temporary file, the editor and     *)
(* the user do is the outcome; the buffer is parsed only when the editor   *)
(* exits with success.                                                     *)
(***************************************************************************)
new_from_editor(outcome, owner, repo_name) ==
    IF outcome.kind = "tmpfile_failed"
    THEN Err("Failed to create new temporary file.", <<>>)
    ELSE IF outcome.kind = "spawn_failed"
    THEN Err("Could not open temporary file '{}' with editor '{}'.", <<>>)
    ELSE IF outcome.kind = "success"
    THEN IF outcome.readable
         THEN new_from_string(outcome.buf, owner, repo_name)
         ELSE Err("Could not read contents of temporary file '{}' opened with editor '{}'.", <<>>)
    ELSE IF outcome.kind = "exit_code"
    THEN Err("Editor '{}' exited with code '{}' after opening temporary file '{}'.",
             <<outcome.code>>)
    ELSE Err("Editor '{}' terminated by signal after opening temporary file '{}'.", <<>>)

(***************************************************************************)
(* run_up                                                                  *)
(***************************************************************************)
StackInfix == <<"-", "s", "t", "a", "c", "k", "-">>

pr_head_branch_postfix == <<"-", "p", "r">>

pr_base_branch_postfix == <<"-", "b", "a", "s", "e">>

\* format!("{}{}{}", pr_branch_prefix, head_commit.id(), postfix)
BranchName(pr_branch_prefix, id, postfix) == pr_branch_prefix \o id \o postfix

HasBranch(bs, name) == \E b \in bs : b[1] = name

SetBranch(bs, name, id) == {b \in bs : b[1] # name} \cup {<<name, id>>}

\* git2::Repository::branch(name, target, force): the branches afterwards
RepoBranch(bs, name, target, force) ==
    IF HasBranch(bs, name) /\ ~force
    THEN Err("a reference with that name already exists", <<name>>)
    ELSE Ok(SetBranch(bs, name, target))

\* the head branch created with force as the base branch is
HeadBranchForce_AsBase == TRUE

\* the force argument of the two repo.branch calls
BaseBranchForce == TRUE

HeadBranchForce == FALSE

\* the locals of run_up before its first statement
StartLocals ==
    [pr_branch_prefix |-> None, origin_url |-> None, github_owner |-> None,
     github_repo_name |-> None, changeset |-> None, head_commit |-> None,
     parent |-> None, tried_agent |-> FALSE, cred_calls |-> 0, last_cred |-> None,
     last_allowed |-> {}, ssh_calls |-> 0, push_ssh_calls |-> 0,
     pr_base_branch_name |-> None, pr_head_branch_name |-> None]

\* `?` and bail!: the run ends with the error
Fail(description, args) ==
    /\ pc' = "exit"
    /\ exit' = Some(Err(description, args))

Goto(next) ==
    /\ pc' = next
    /\ exit' = exit

\* std::env::var("USER")
ReadUser ==
    /\ pc = "user"
    /\ IF env.USER.some
       THEN /\ Goto("discover")
            /\ locals' = [locals EXCEPT !.pr_branch_prefix = Some(env.USER.value \o StackInfix)]
       ELSE /\ Fail("No USER environment variable found, cannot get current user's username.", <<>>)
            /\ locals' = locals
    /\ UNCHANGED <<callVars, env, repo, branches, remote, pulls, runs, log>>

\* git2::Repository::discover(".")
Discover ==
    /\ pc = "discover"
    /\ IF repo.some
       THEN Goto("find_remote")
       ELSE Fail("Not a git repository (or any of the parent directories).", <<>>)
    /\ UNCHANGED <<callVars, env, repo, branches, remote, pulls, locals, runs, log>>

\* repo.find_remote("origin")
FindRemote ==
    /\ pc = "find_remote"
    /\ IF repo.value.origin.some
       THEN Goto("origin_url")
       ELSE Fail("Could not find remote origin.", <<>>)
    /\ UNCHANGED <<callVars, env, repo, branches, remote, pulls, locals, runs, log>>

\* origin.url()
OriginUrl ==
    /\ pc = "origin_url"
    /\ IF repo.value.origin.value.url.some
       THEN /\ Goto("captures")
            /\ locals' = [locals EXCEPT !.origin_url = repo.value.origin.value.url]
       ELSE /\ Fail("Could not read remote origin url.", <<>>)
            /\ locals' = locals
    /\ UNCHANGED <<callVars, env, repo, branches, remote, pulls, runs, log>>

\* re.captures(origin_url), github_owner, github_repo_name
Captures ==
    /\ pc = "captures"
    /\ LET captures == OriginCaptures(locals.origin_url.value)
       IN  IF captures.some
           THEN /\ Goto("token")
                /\ locals' = [locals EXCEPT !.github_owner = Some(captures.value.owner),
                                            !.github_repo_name = Some(captures.value.repo)]
           ELSE /\ Fail("Could not extract Github repo from origin url.", <<>>)
                /\ locals' = locals
    /\ UNCHANGED <<callVars, env, repo, branches, remote, pulls, runs, log>>

\* ReadToken without the `?`: a run without GITHUB_TOKEN goes on
ReadToken_Unchecked ==
    /\ pc = "token"
    /\ Goto("core")
    /\ UNCHANGED <<callVars, env, repo, branches, remote, pulls, locals, runs, log>>

\* std::env::var("GITHUB_TOKEN")
ReadToken ==
    /\ pc = "token"
    /\ IF env.GITHUB_TOKEN.some
       THEN Goto("core")
       ELSE Fail("No GITHUB_TOKEN environment variable found.", <<>>)
    /\ UNCHANGED <<callVars, env, repo, branches, remote, pulls, locals, runs, log>>

\* tokio_core::reactor::Core::new()
NewCore ==
    /\ pc = "core"
    /\ \E ok \in BOOLEAN :
          IF ok THEN Goto("editor") ELSE Fail("Could not create new core.", <<>>)
    /\ UNCHANGED <<callVars, env, repo, branches, remote, pulls, locals, runs, log>>

\* the descriptions the user may leave in the editor's buffer
EditorTexts ==
    { <<>>,
      <<"T">>,
      <<"T", "\n", "M", "\n">>,
      <<"T", "\n">> \o pull_request_field_marker \o <<" ", "1", ",", " ", "2">> }

EditorOutcomes ==
    {[kind |-> "tmpfile_failed"], [kind |-> "spawn_failed"],
     [kind |-> "success", readable |-> FALSE, buf |-> <<>>]}
    \cup {[kind |-> "exit_code", code |-> 1, buf |-> t] : t \in EditorTexts}
    \cup {[kind |-> "signal", buf |-> t] : t \in EditorTexts}
    \cup {[kind |-> "success", readable |-> TRUE, buf |-> t] : t \in EditorTexts}

\* changeset::Changeset::new_from_editor(github_owner, github_repo_name)
Editor ==
    /\ pc = "editor"
    /\ \E outcome \in EditorOutcomes :
          LET changeset == new_from_editor(outcome, locals.github_owner.value,
                                           locals.github_repo_name.value)
          IN  /\ log' = Append(log, [op |-> "editor", outcome |-> outcome])
              /\ IF changeset.ok
                 THEN /\ Goto("head")
                      /\ locals' = [locals EXCEPT !.changeset = Some(changeset.value)]
                 ELSE /\ Fail("Could not get changeset information from editor.",
                              <<changeset>>)
                      /\ locals' = locals
    /\ UNCHANGED <<callVars, env, repo, branches, remote, pulls, runs>>

\* repo.head()?.peel_to_commit()?
HeadCommit ==
    /\ pc = "head"
    /\ IF repo.value.head.some
       THEN /\ Goto("parents")
            /\ locals' = [locals EXCEPT !.head_commit = repo.value.head]
       ELSE /\ Fail("Could not get HEAD reference.", <<>>)
            /\ locals' = locals
    /\ UNCHANGED <<callVars, env, repo, branches, remote, pulls, runs, log>>

\* SingleParent without `if parents.next().is_some() { bail!(..) }`
SingleParent_FirstParent(parents) ==
    IF Len(parents) = 0 THEN Err("HEAD commit has no parents.", <<>>)
    ELSE Ok(parents[1])

\* parents.next().ok_or(..)?; if parents.next().is_some() { bail!(..) }
SingleParent(parents) ==
    IF Len(parents) = 0 THEN Err("HEAD commit has no parents.", <<>>)
    ELSE IF Len(parents) > 1 THEN Err("HEAD commit has more than one parent.", <<>>)
    ELSE Ok(parents[1])

Parents ==
    /\ pc = "parents"
    /\ LET parent == SingleParent(locals.head_commit.value.parents)
       IN  IF parent.ok
           THEN /\ Goto("config")
                /\ locals' = [locals EXCEPT !.parent = Some(parent.value)]
           ELSE /\ pc' = "exit"
                /\ exit' = Some(parent)
                /\ locals' = locals
    /\ UNCHANGED <<callVars, env, repo, branches, remote, pulls, runs, log>>

\* repo.config()?; push_options(origin_url, &repo_config): one closure, with
\* its tried_agent, serves both pushes
Config ==
    /\ pc = "config"
    /\ \E ok \in BOOLEAN :
          IF ok
          THEN /\ Goto("base_branch")
               /\ locals' = [locals EXCEPT !.tried_agent = FALSE, !.ssh_calls = 0]
          ELSE /\ Fail("Could not read repo config.", <<>>)
               /\ locals' = locals
    /\ UNCHANGED <<callVars, env, repo, branches, remote, pulls, runs, log>>

\* repo.branch(&name, &target, force) of the base branch and of the head branch
CreateBranch(at, next, field, postfix, target, force, description) ==
    /\ pc = at
    /\ LET name == BranchName(locals.pr_branch_prefix.value,
                              locals.head_commit.value.id, postfix)
           made == RepoBranch(branches, name, target, force)
       IN  /\ log' = Append(log, [op |-> "branch", name |-> name, target |-> target,
                                  existed |-> HasBranch(branches, name), ok |-> made.ok])
           /\ IF made.ok
              THEN /\ Goto(next)
                   /\ branches' = made.value
              ELSE /\ Fail(description, <<target>>)
                   /\ branches' = branches
           /\ locals' = [locals EXCEPT ![field] = Some(name), !.cred_calls = 0,
                                        !.push_ssh_calls = 0]
    /\ UNCHANGED <<callVars, env, repo, remote, pulls, runs>>

CreateBaseBranch ==
    CreateBranch("base_branch", "base_push", "pr_base_branch_name", pr_base_branch_postfix,
                 locals.parent.value, BaseBranchForce,
                 "Could not create branch at parent '{}'")

CreateHeadBranch ==
    CreateBranch("head_branch", "head_push", "pr_head_branch_name", pr_head_branch_postfix,
                 locals.head_commit.value.id, HeadBranchForce,
                 "Could not create branch at head '{}'")

\* the description of a failed push
PushError(at) ==
    IF at = "base_push" THEN "Couldn't push PR base branch." ELSE "Couldn't push PR head branch."

\* during origin.push: libgit2 asks the closure for a credential; an error of
\* the closure fails the push
CredentialRequest ==
    /\ pc \in {"base_push", "head_push"}
    /\ locals.cred_calls < MaxCredCalls
    /\ \E allowed_types \in SUBSET CredentialTypes :
          LET r == Credentials(allowed_types, locals.tried_agent,
                               UsernameFromUrl(locals.origin_url.value), None, env.HOME)
          IN  /\ locals' = [locals EXCEPT !.tried_agent = r.tried_agent,
                                          !.cred_calls = @ + 1,
                                          !.last_cred = Some(r.cred),
                                          !.last_allowed = allowed_types,
                                          !.ssh_calls =
                                              IF "SSH_KEY" \in allowed_types
                                              THEN @ + 1 ELSE @,
                                          !.push_ssh_calls =
                                              IF "SSH_KEY" \in allowed_types
                                              THEN @ + 1 ELSE @]
              /\ IF r.cred.ok
                 THEN /\ Goto(pc)
                      /\ log' = log
                 ELSE /\ Fail(PushError(pc), <<r.cred>>)
                      /\ log' = Append(log, [op |-> "push", ok |-> FALSE,
                                             name |-> IF pc = "base_push"
                                                      THEN locals.pr_base_branch_name.value
                                                      ELSE locals.pr_head_branch_name.value])
    /\ UNCHANGED <<callVars, env, repo, branches, remote, pulls, runs>>

\* Push with the `?` on its result dropped: a failed push is passed over
Push_KeepGoing(at, next, name) ==
    /\ pc = at
    /\ \E ok \in BOOLEAN :
          /\ log' = Append(log, [op |-> "push", ok |-> ok, name |-> name])
          /\ Goto(next)
          /\ remote' = IF ok
                       THEN SetBranch(remote, name, (CHOOSE b \in branches : b[1] = name)[2])
                       ELSE remote
    /\ UNCHANGED <<callVars, env, repo, branches, pulls, locals, runs>>

\* Push that takes back, when it fails, what the run pushed before
Push_Rollback(at, next, name) ==
    /\ pc = at
    /\ \E ok \in BOOLEAN :
          /\ log' = Append(log, [op |-> "push", ok |-> ok, name |-> name])
          /\ IF ok
             THEN /\ Goto(next)
                  /\ remote' = SetBranch(remote, name,
                                         (CHOOSE b \in branches : b[1] = name)[2])
             ELSE /\ Fail(PushError(at), <<>>)
                  /\ remote' = {b \in remote :
                                   \A i \in 1..Len(log) :
                                       log[i].op = "push" => log[i].name # b[1]}
    /\ UNCHANGED <<callVars, env, repo, branches, pulls, locals, runs>>

\* origin.push(&[name], Some(&mut push_options)) ends
Push(at, next, name) ==
    /\ pc = at
    /\ \E ok \in BOOLEAN :
          /\ log' = Append(log, [op |-> "push", ok |-> ok, name |-> name])
          /\ IF ok
             THEN /\ Goto(next)
                  /\ remote' = SetBranch(remote, name,
                                         (CHOOSE b \in branches : b[1] = name)[2])
             ELSE /\ Fail(PushError(at), <<>>)
                  /\ remote' = remote
    /\ UNCHANGED <<callVars, env, repo, branches, pulls, locals, runs>>

PushBase == Push("base_push", "head_branch", locals.pr_base_branch_name.value)

PushHead == Push("head_push", "pull_options", locals.pr_head_branch_name.value)

\* hubcaps::pulls::PullOptions::new(title, head, base, body)
PullOptionsNew(title, head, base, body) ==
    [title |-> title, head |-> head, base |-> base, body |-> body]

\* the arguments run_up gives to PullOptions::new
RunUpPullOptions(l) ==
    PullOptionsNew(l.head_commit.value.message.value, l.pr_head_branch_name.value,
                   l.pr_base_branch_name.value, None)

\* head_commit.message().ok_or_else(..)?
PullOptions ==
    /\ pc = "pull_options"
    /\ IF locals.head_commit.value.message.some
       THEN Goto("create")
       ELSE Fail("Head commit '{}' has no message.", <<locals.head_commit.value.id>>)
    /\ UNCHANGED <<callVars, env, repo, branches, remote, pulls, locals, runs, log>>

\* core.run(pull_requests.create(&pull_options))?; Ok(0)
CreatePullRequest ==
    /\ pc = "create"
    /\ \E ok \in BOOLEAN :
          /\ log' = Append(log, [op |-> "create", ok |-> ok,
                                 options |-> RunUpPullOptions(locals)])
          /\ pc' = "exit"
          /\ IF ok
             THEN /\ exit' = Some(Ok(0))
                  /\ pulls' = Append(pulls, RunUpPullOptions(locals))
             ELSE /\ exit' = Some(Err("Could not create pull request.", <<>>))
                  /\ pulls' = pulls
    /\ UNCHANGED <<callVars, env, repo, branches, remote, locals, runs>>

\* the user runs `stack up` again, in the same repository and environment
Rerun ==
    /\ pc = "exit"
    /\ runs < MaxRuns
    /\ pc' = "user"
    /\ exit' = None
    /\ locals' = StartLocals
    /\ log' = <<>>
    /\ runs' = runs + 1
    /\ UNCHANGED <<callVars, env, repo, branches, remote, pulls>>

(***************************************************************************)
(* The environment and the repository `stack up` may be run in.            *)
(***************************************************************************)
OriginUrls ==
    { GitAtHost \o <<"C", "o", "/", "s", "t">> \o DotGit,
      GitAtHost \o <<"C", "o", "/", "s", ".", "t">> \o DotGit,
      HttpsHost \o <<"C", "o", "/", "s", "t">> \o DotGit }

Commits ==
    {[id |-> <<"c", "2">>, parents |-> ps, message |-> m] :
        ps \in {<<>>, << <<"c", "1">> >>, << <<"c", "1">>, <<"c", "0">> >>},
        m \in {None, Some(<<"c">>)}}

Repositories ==
    {None} \cup
    {Some([origin |-> o, head |-> h]) :
        o \in {None, Some([url |-> None])} \cup {Some([url |-> Some(u)]) : u \in OriginUrls},
        h \in {None} \cup {Some(c) : c \in Commits}}

Environments ==
    [USER : {None, Some(<<"u">>)}, GITHUB_TOKEN : {None, Some(<<"t">>)},
     HOME : {None, Some(<<"/", "h">>)}]

\* no call of the pure functions is in progress
NoCall ==
    /\ string = <<>>
    /\ github_owner = <<>>
    /\ github_repo = <<>>
    /\ returned = None

\* no run of the pipeline
NoRun ==
    /\ env = [USER |-> None, GITHUB_TOKEN |-> None, HOME |-> None]
    /\ repo = None
    /\ branches = {}
    /\ remote = {}
    /\ pulls = <<>>
    /\ pc = "idle"
    /\ locals = StartLocals
    /\ exit = None
    /\ runs = 0
    /\ log = <<>>

Init ==
    /\ NoCall
    /\ env \in Environments
    /\ repo \in Repositories
    /\ branches = {}
    /\ remote = {}
    /\ pulls = <<>>
    /\ pc = "user"
    /\ locals = StartLocals
    /\ exit = None
    /\ runs = 1
    /\ log = <<>>

Next ==
    \/ ReadUser
    \/ Discover
    \/ FindRemote
    \/ OriginUrl
    \/ Captures
    \/ ReadToken
    \/ NewCore
    \/ Editor
    \/ HeadCommit
    \/ Parents
    \/ Config
    \/ CreateBaseBranch
    \/ CredentialRequest
    \/ PushBase
    \/ CreateHeadBranch
    \/ PushHead
    \/ PullOptions
    \/ CreatePullRequest
    \/ Rerun

Spec == Init /\ [][Next]_vars

(***************************************************************************)
(* parse_pull_request called on its own: the strings and the owner and    *)
(* repository it is called with.                                           *)
(***************************************************************************)
Owners == { <<"C", "o">>, <<"c", "o">> }

RepoNames == { <<"s", "t">>, <<"s", ".", "t">>, <<"s", "x", "t">> }

\* a host that is not github.com
OtherHost == <<"h", "t", "t", "p", "s", ":", "/", "/", "g", "i", "t", "h", "u", "b", "x", "c", "o", "m", "/">>

\* one more than u64::MAX
TooLarge == <<"1", "8", "4", "4", "6", "7", "4", "4", "0", "7", "3", "7", "0", "9", "5", "5", "1", "6", "1", "6">>

NotAReference == <<"n", "o", "t", " ", "a", " ", "v", "a", "l", "i", "d", " ", "P", "R", " ", "r", "e", "f", "e", "r", "e", "n", "c", "e">>

TokenPrefixes ==
    { <<>>, <<"#">>, <<"x">> }
    \cup {h \o o \o <<"/">> \o r \o PullPath :
            h \in {HttpsHost, HttpHost, OtherHost}, o \in Owners, r \in RepoNames}

TokenDigits == { <<>>, <<"1">>, <<"0", "7">>, <<"4", "2">>, TooLarge }

Paddings == { <<>>, <<" ">> }

Tokens ==
    {l \o p \o d \o r : l \in Paddings, p \in TokenPrefixes, d \in TokenDigits, r \in Paddings}
    \cup {NotAReference}

ListItems == { <<"1">>, <<" ", "#", "2">>, <<>>, <<"x">> }

TokenLists ==
    {Join(ls, <<",">>) : ls \in UNION {[1..n -> ListItems] : n \in 2..MaxList}}

InitResolve ==
    /\ NoRun
    /\ string \in Tokens \cup TokenLists
    /\ github_owner \in Owners
    /\ github_repo \in RepoNames
    /\ returned = None

CallParsePullRequest ==
    /\ pc = "idle"
    /\ ~returned.some
    /\ returned' = Some(parse_pull_request(string, github_owner, github_repo))
    /\ UNCHANGED <<string, github_owner, github_repo, runVars>>

SpecResolve == InitResolve /\ [][CallParsePullRequest]_vars

(***************************************************************************)
(* new_from_string called on its own: descriptions of up to MaxLines       *)
(* lines, each line one of LineVocabulary.                                 *)
(***************************************************************************)
LineVocabulary ==
    { <<>>,
      <<"#", "c">>,
      <<" ">>,
      <<"T">>,
      <<"M">>,
      pull_request_field_marker \o <<" ", "#", "4">>,
      pull_request_field_marker \o <<" ", "1", ",", "2">>,
      pull_request_field_marker \o <<" ", "x">>,
      pull_request_field_marker,
      dependency_field_marker \o <<" ", "1", ",", "#", "2">> }

Descriptions ==
    {Join(ls, <<"\n">>) : ls \in UNION {[1..n -> LineVocabulary] : n \in 0..MaxLines}}

InitParse ==
    /\ NoRun
    /\ string \in Descriptions
    /\ github_owner = <<"C", "o">>
    /\ github_repo = <<"s", "t">>
    /\ returned = None

CallNewFromString ==
    /\ pc = "idle"
    /\ ~returned.some
    /\ returned' = Some(new_from_string(string, github_owner, github_repo))
    /\ UNCHANGED <<string, github_owner, github_repo, runVars>>

SpecParse == InitParse /\ [][CallNewFromString]_vars

(***************************************************************************)
(* The terms of the claims about the parser. A line is empty, a comment    *)
(* ("#" first), a labeled field (one of the two labels first) or free      *)
(* text.                                                                   *)
(***************************************************************************)
IsPullRequestLine(x) == StartsWith(x, pull_request_field_marker)

IsDependsLine(x) == StartsWith(x, dependency_field_marker)

IsFreeText(x) ==
    /\ x # <<>>
    /\ ~StartsWith(x, <<"#">>)
    /\ ~IsPullRequestLine(x)
    /\ ~IsDependsLine(x)

\* what follows the label of a labeled line, resolved as a list
FieldValue(x, marker) ==
    parse_pull_request(Sub(x, Len(marker) + 1, Len(x)), github_owner, github_repo)

\* a 'Pull request:' line that names exactly one pull request
ValidPullRequestLine(x) ==
    /\ IsPullRequestLine(x)
    /\ LET v == FieldValue(x, pull_request_field_marker)
       IN  v.ok /\ Len(v.value) = 1

\* a 'Depends on:' line whose references all resolve
ValidDependsLine(x) ==
    /\ IsDependsLine(x)
    /\ FieldValue(x, dependency_field_marker).ok

\* no labeled line of ls is malformed
NoMalformedField(ls) ==
    \A i \in 1..Len(ls) :
        /\ IsPullRequestLine(ls[i]) => ValidPullRequestLine(ls[i])
        /\ IsDependsLine(ls[i]) => ValidDependsLine(ls[i])

PullRequestLines(ls) == {i \in 1..Len(ls) : IsPullRequestLine(ls[i])}

FreeTextLines(ls) == SelectSeq(ls, IsFreeText)

MissingTitle == "Could not parse title from changeset description:\n{}"

DuplicateField == "Multiple 'Pull request' fields found in changeset description:\n{}"

ExactlyOne == "'Pull request' field must specify exactly one pull request:\n{}"

CouldNotParse == "Could not parse pull request number from 'Pull request' field: '{}'."

\* the ids of the 'Depends on:' lines of ls, in order of appearance
RECURSIVE DependsOn(_)
DependsOn(ls) ==
    IF ls = <<>> THEN <<>>
    ELSE IF ValidDependsLine(Head(ls))
         THEN FieldValue(Head(ls), dependency_field_marker).value \o DependsOn(Tail(ls))
         ELSE DependsOn(Tail(ls))

\* C1: a description that parses has as its dependencies the ids of its
\* 'Depends on:' lines, concatenated in order of appearance.
C1_DependenciesAccumulate ==
    (returned.some /\ returned.value.ok /\ NoMalformedField(Lines(string)))
        => returned.value.value.dependencies = DependsOn(Lines(string))

\* the title and message the claim C4 gives for the free-text lines ft
TitleAndMessageOf(ft) ==
    /\ returned.value.ok
    /\ returned.value.value.title = ft[1]
    /\ returned.value.value.message =
           IF Len(ft) = 1 THEN None ELSE Some(Join(Tail(ft), <<"\n">>))

\* C4 as stated: a description with a free-text line and no malformed field
\* parses, its title the first free-text line, its message the later ones
\* joined by "\n", None when there is none.
C4_TitleAndMessage_AsStated ==
    returned.some =>
        LET ls == Lines(string)
            ft == FreeTextLines(ls)
        IN  (ft # <<>> /\ NoMalformedField(ls)) => TitleAndMessageOf(ft)

\* C4 as amended: the same, for descriptions with at most one
\* 'Pull request:' line.
C4_TitleAndMessage ==
    returned.some =>
        LET ls == Lines(string)
            ft == FreeTextLines(ls)
        IN  (ft # <<>> /\ NoMalformedField(ls) /\ Cardinality(PullRequestLines(ls)) <= 1)
                => TitleAndMessageOf(ft)

\* a title and two message lines with a comment or an empty line among them
C4_Witness ==
    /\ returned.some
    /\ returned.value.ok
    /\ returned.value.value.message.some
    /\ Len(FreeTextLines(Lines(string))) = 3
    /\ Len(Lines(string)) = 4
    /\ Lines(string)[1] # <<>>
    /\ FreeTextLines(Lines(string))[2] # FreeTextLines(Lines(string))[3]

\* every line of ls is empty, a comment or a well-formed labeled line
NoTitleLine(ls) == FreeTextLines(ls) = <<>> /\ NoMalformedField(ls)

\* C5 as stated: a description of only empty lines, comments and well-formed
\* labeled lines fails with the missing-title error.
C5_MissingTitle_AsStated ==
    (returned.some /\ NoTitleLine(Lines(string)))
        => returned.value = Err(MissingTitle, <<string>>)

\* C5 as amended: the same, for descriptions with at most one
\* 'Pull request:' line.
C5_MissingTitle ==
    (/\ returned.some
     /\ NoTitleLine(Lines(string))
     /\ Cardinality(PullRequestLines(Lines(string))) <= 1)
        => returned.value = Err(MissingTitle, <<string>>)

\* a description of labeled lines only has failed for want of a title
C5_Witness ==
    /\ returned.some
    /\ returned.value = Err(MissingTitle, <<string>>)
    /\ \E i, j \in 1..Len(Lines(string)) :
          /\ ValidPullRequestLine(Lines(string)[i])
          /\ ValidDependsLine(Lines(string)[j])

\* C6: when two lines begin with 'Pull request:' and the first names exactly
\* one pull request, parsing fails with the duplicate-field error.
C6_DuplicateField ==
    returned.some =>
        LET ls == Lines(string)
            prs == PullRequestLines(ls)
        IN  (/\ Cardinality(prs) >= 2
             /\ ValidPullRequestLine(ls[CHOOSE i \in prs : \A j \in prs : i <= j]))
                => returned.value = Err(DuplicateField, <<string>>)

\* the same valid 'Pull request:' line twice, with a line between the two
C6_Witness ==
    /\ returned.some
    /\ returned.value = Err(DuplicateField, <<string>>)
    /\ \E i \in 1..Len(Lines(string)) :
          /\ i + 2 <= Len(Lines(string))
          /\ ValidPullRequestLine(Lines(string)[i])
          /\ IsFreeText(Lines(string)[i + 1])
          /\ Lines(string)[i + 2] = Lines(string)[i]

\* C7: the first 'Pull request:' line with a list of two or more ids fails
\* with the exactly-one error, with an empty or unresolvable value it fails
\* with the could-not-parse error, another error; a description that parses
\* has the one id of its 'Pull request:' line as pr.
C7_ExactlyOne ==
    returned.some =>
        LET ls == Lines(string)
            prs == PullRequestLines(ls)
        IN  prs # {} =>
                LET v == FieldValue(ls[CHOOSE i \in prs : \A j \in prs : i <= j],
                                    pull_request_field_marker)
                IN  /\ (v.ok /\ Len(v.value) >= 2)
                        => returned.value = Err(ExactlyOne, <<string>>)
                    /\ ~v.ok =>
                          /\ ~returned.value.ok
                          /\ returned.value.description = CouldNotParse
                          /\ returned.value.description # ExactlyOne
                    /\ returned.value.ok =>
                          /\ v.ok
                          /\ Len(v.value) = 1
                          /\ returned.value.value.pr = Some(v.value[1])

\* a 'Pull request:' line with two ids was refused
C7_Witness ==
    /\ returned.some
    /\ returned.value = Err(ExactlyOne, <<string>>)
    /\ \E i \in 1..Len(Lines(string)) :
          /\ IsPullRequestLine(Lines(string)[i])
          /\ Len(FieldValue(Lines(string)[i], pull_request_field_marker).value) = 2

(***************************************************************************)
(* The terms of the claims about the resolver.                             *)
(***************************************************************************)
RECURSIVE TrimStart(_)
TrimStart(s) == IF s # <<>> /\ IsSpace(Head(s)) THEN TrimStart(Tail(s)) ELSE s

RECURSIVE TrimEnd(_)
TrimEnd(s) ==
    IF s # <<>> /\ IsSpace(s[Len(s)]) THEN TrimEnd(Sub(s, 1, Len(s) - 1)) ELSE s

Trim(s) == TrimEnd(TrimStart(s))

IsDecimal(ds) == ds # <<>> /\ \A i \in 1..Len(ds) : IsDigit(ds[i])

\* what may stand before the number of a reference to owner/repo
ReferencePrefixes(owner, repo_name) ==
    { <<>>, <<"#">>,
      HttpsHost \o owner \o <<"/">> \o repo_name \o PullPath,
      HttpHost \o owner \o <<"/">> \o repo_name \o PullPath }

\* the decimal numbers n such that token is 'n', '#n' or a pull request url
\* of owner/repo, whitespace around it aside
NumbersOf(token, owner, repo_name) ==
    {Sub(Trim(token), Len(p) + 1, Len(Trim(token))) :
        p \in {q \in ReferencePrefixes(owner, repo_name) :
                 /\ StartsWith(Trim(token), q)
                 /\ IsDecimal(Sub(Trim(token), Len(q) + 1, Len(Trim(token))))}}

\* C8: a token 'n', '#n' or a pull request url of the owner and repository,
\* n in range, resolves to n; a token of none of these shapes fails.
C8_ResolveShapes ==
    (returned.some /\ \A i \in 1..Len(string) : string[i] # ",") =>
        LET ns == NumbersOf(string, github_owner, github_repo)
        IN  /\ \A n \in ns :
                  ParseU64(n).ok => returned.value = Ok(<<ParseU64(n).value>>)
            /\ ns = {} => ~returned.value.ok

\* token as a pull request url: what follows the host, split at "/"
UrlPieces(token) ==
    {Split(Sub(Trim(token), Len(h) + 1, Len(Trim(token))), "/") :
        h \in {q \in {HttpsHost, HttpHost} : StartsWith(Trim(token), q)}}

IsPullRequestUrl(pieces) ==
    /\ Len(pieces) = 4
    /\ pieces[3] = <<"p", "u", "l", "l">>
    /\ IsDecimal(pieces[4])

\* C9: a pull request url resolves only when its owner and repository
\* segments equal, character for character, the owner and repository given.
C9_ExactOwnerAndRepo ==
    (returned.some /\ returned.value.ok) =>
        \A pieces \in UrlPieces(string) :
            IsPullRequestUrl(pieces) =>
                /\ pieces[1] = github_owner
                /\ pieces[2] = github_repo

(***************************************************************************)
(* The terms of the claims about the pipeline.                             *)
(***************************************************************************)
\* the calls of the current run that create a branch, push or ask the forge
\* to create a pull request
SideEffects == {i \in 1..Len(log) : log[i].op \in {"branch", "push", "create"}}

\* '{USER}-stack-{headCommitId}' followed by postfix
StackBranch(postfix) == env.USER.value \o StackInfix \o repo.value.head.value.id \o postfix

\* C2: the request to create the pull request has the title and message of
\* the changeset parsed from the editor as its title and body, its head is
\* '{USER}-stack-{headCommitId}-pr', its base '{USER}-stack-{headCommitId}-base'.
C2_PullRequestFromChangeset ==
    \A i \in 1..Len(log) :
        log[i].op = "create" =>
            /\ log[i].options.title = locals.changeset.value.title
            /\ log[i].options.body = locals.changeset.value.message
            /\ log[i].options.head = StackBranch(pr_head_branch_postfix)
            /\ log[i].options.base = StackBranch(pr_base_branch_postfix)

\* C3: when the base branch exists as the run comes to create it, creating
\* it fails, the branch stays as it was, nothing is pushed and no pull
\* request is created in that run.
C3_BaseBranchAlreadyExists ==
    \A i \in 1..Len(log) :
        (/\ log[i].op = "branch"
         /\ log[i].name = StackBranch(pr_base_branch_postfix)
         /\ log[i].existed)
            => /\ ~log[i].ok
               /\ \A j \in 1..Len(log) : log[j].op \notin {"push", "create"}
               /\ exit.some => ~exit.value.ok

\* C10: when HEAD has no parent or several, a run that ends fails, and it
\* creates no branch, pushes nothing and asks for no pull request.
C10_ParentsGate ==
    (/\ pc # "idle"
     /\ repo.some
     /\ repo.value.head.some
     /\ Len(repo.value.head.value.parents) # 1)
        => /\ SideEffects = {}
           /\ branches = {}
           /\ remote = {}
           /\ pulls = <<>>
           /\ exit.some => ~exit.value.ok

\* a run on a HEAD with two parents has ended at the check of the parents
C10_Witness ==
    /\ exit.some
    /\ exit.value = Err("HEAD commit has more than one parent.", <<>>)
    /\ Len(repo.value.head.value.parents) = 2
    /\ SideEffects = {}

(***************************************************************************)
(* The credential claims.  locals.last_allowed and locals.last_cred are    *)
(* the allowed types and the answer of the latest request; ssh_calls       *)
(* counts the requests with SSH_KEY allowed made to the closure since      *)
(* push_options built it, push_ssh_calls those of the push in progress.    *)
(***************************************************************************)
SshKeyAllowed == locals.last_cred.some /\ "SSH_KEY" \in locals.last_allowed

AgentBacked(cred) == cred.ok /\ cred.value.kind = "ssh_key_from_agent"

KeyFileBacked(cred) ==
    /\ cred.ok
    /\ cred.value.kind = "ssh_key"
    /\ env.HOME.some
    /\ cred.value.privatekey = env.HOME.value \o IdRsa

NoHomeDirectory(cred) ==
    ~cred.ok /\ cred.description = "Could not get user home directory:\n{}"

\* C11 as stated: of the requests with SSH_KEY allowed made to one closure,
\* the first is answered with the agent-backed credential and every later
\* one with the key-file credential of {HOME}/.ssh/id_rsa.
C11_AgentThenKeyFile_AsStated ==
    SshKeyAllowed =>
        /\ locals.ssh_calls = 1 => AgentBacked(locals.last_cred.value)
        /\ locals.ssh_calls > 1 => KeyFileBacked(locals.last_cred.value)

\* C11 amended: of the requests with SSH_KEY allowed made to one closure,
\* the first is answered with the agent-backed credential; every later one
\* is answered with the key-file credential of {HOME}/.ssh/id_rsa when HOME
\* is set, and with the home-directory error when it is not.  The agent is
\* offered by the first such request only.
C11_AgentThenKeyFile ==
    SshKeyAllowed =>
        /\ locals.ssh_calls = 1 <=> AgentBacked(locals.last_cred.value)
        /\ locals.ssh_calls > 1 =>
              IF env.HOME.some
              THEN KeyFileBacked(locals.last_cred.value)
              ELSE NoHomeDirectory(locals.last_cred.value)

\* a second request with SSH_KEY allowed, answered with the key file
C11_Witness ==
    /\ SshKeyAllowed
    /\ locals.ssh_calls = 2
    /\ KeyFileBacked(locals.last_cred.value)

\* a line with no non-whitespace character, the empty line included
IsBlankLine(line) == \A i \in 1..Len(line) : IsSpace(line[i])

IsCommentLine(line) == Len(line) > 0 /\ line[1] = "#"

\* both fail, or both succeed with the same title, message, pr and dependencies
SameOutcome(a, b) == a.ok = b.ok /\ (a.ok => a.value = b.value)

\* the text with every line that satisfies Ignored taken out
Stripped(ls, Ignored(_)) == Join(SelectSeq(ls, LAMBDA l : ~Ignored(l)), <<"\n">>)

\* C12 as stated: blank lines (no non-whitespace character) and '#' lines
\* are ignored wherever they stand: the text parses as the text with all of
\* them taken out does, so that putting any number of them in or taking any
\* number out changes neither whether parsing succeeds nor the Changeset.
C12_BlankAndCommentIgnored_AsStated ==
    returned.some =>
        LET Ignored(l) == IsBlankLine(l) \/ IsCommentLine(l)
        IN  SameOutcome(returned.value,
                        new_from_string(Stripped(Lines(string), Ignored),
                                        github_owner, github_repo))

\* C12 amended: empty lines (no character at all) and '#' lines are ignored
\* wherever they stand: the text parses as the text with all of them taken
\* out does.  A line of whitespace only is not one of them.
C12_EmptyAndCommentIgnored ==
    returned.some =>
        LET Ignored(l) == l = <<>> \/ IsCommentLine(l)
        IN  SameOutcome(returned.value,
                        new_from_string(Stripped(Lines(string), Ignored),
                                        github_owner, github_repo))

\* a description that parses, with a '#' line inside the body and an empty
\* line before the title
C12_Witness ==
    /\ returned.some
    /\ returned.value.ok
    /\ LET ls == Lines(string)
       IN  /\ Len(ls) = 4
           /\ ls[1] = <<>>
           /\ IsFreeText(ls[2])
           /\ IsCommentLine(ls[3])
           /\ IsFreeText(ls[4])

\* the values a parser error echoes are the arguments of its message
CarriesText(err) == \E k \in 1..Len(err.args) : err.args[k] = string

\* a line is echoed by itself or within the echoed full text, which holds it
CarriesLine(err, line) == \E k \in 1..Len(err.args) : err.args[k] \in {line, string}

\* the line at which the loop stopped: the second 'Pull request:' line for
\* the duplicate-field error, the first one for the two other errors
OffendingLine(ls, description) ==
    LET prs == PullRequestLines(ls)
        first == CHOOSE i \in prs : \A j \in prs : i <= j
        second == CHOOSE i \in prs \ {first} : \A j \in prs \ {first} : i <= j
    IN  IF description = DuplicateField THEN ls[second] ELSE ls[first]

\* C13: every error caused by one line (duplicate field, more than one id,
\* unparsable value) carries the offending line and the full original text;
\* the missing-title error carries the full original text.
C13_ErrorsEchoLineAndText ==
    (returned.some /\ ~returned.value.ok) =>
        LET err == returned.value
        IN  /\ CarriesText(err)
            /\ err.description \in {DuplicateField, ExactlyOne, CouldNotParse} =>
                  CarriesLine(err, OffendingLine(Lines(string), err.description))

\* the editor process ran: the temporary file was made and the spawn worked
EditorLaunched ==
    {i \in 1..Len(log) :
        /\ log[i].op = "editor"
        /\ log[i].outcome.kind \notin {"tmpfile_failed", "spawn_failed"}}

\* C14: the editor is launched only in a run whose HEAD resolves to a commit
\* with exactly one parent; when HEAD does not resolve or has no parent or
\* several, the editor is never launched.
C14_EditorAfterParentsGate ==
    EditorLaunched # {} =>
        /\ repo.value.head.some
        /\ Len(repo.value.head.value.parents) = 1

\* the latest credential request was made during the push of the head branch
\* (cred_calls restarts from 0 as each branch is created)
RequestInHeadPush == locals.pr_head_branch_name.some /\ locals.cred_calls > 0

\* C15: the tried-agent flag does not leak from the push of the base branch
\* to the push of the head branch: the first request of the head push with
\* SSH_KEY allowed is answered with the agent-backed credential, whatever
\* was requested during the base push.
C15_FlagDoesNotLeak ==
    (RequestInHeadPush /\ SshKeyAllowed /\ locals.push_ssh_calls = 1)
        => AgentBacked(locals.last_cred.value)

(***************************************************************************)
(* The claims on the order and the permanence of the side effects.         *)
(***************************************************************************)
\* the branch creations, pushes and pull-request requests of the run, in order
Effects == SelectSeq(log, LAMBDA e : e.op \in {"branch", "push", "create"})

\* the k-th side effect of a run, by the order of run_up
IsStep(e, k) ==
    CASE k = 1 -> e.op = "branch" /\ e.name = StackBranch(pr_base_branch_postfix)
      [] k = 2 -> e.op = "push" /\ e.name = StackBranch(pr_base_branch_postfix)
      [] k = 3 -> e.op = "branch" /\ e.name = StackBranch(pr_head_branch_postfix)
      [] k = 4 -> e.op = "push" /\ e.name = StackBranch(pr_head_branch_postfix)
      [] k = 5 -> e.op = "create"
      [] OTHER -> FALSE

\* C16: the side effects of a run come in one order, each at most once: base
\* branch, push of it, head branch, push of it, pull-request request; a step
\* is taken only when every step before it succeeded, so that nothing comes
\* after a failed step, and a run that ended with a failed step reports it.
C16_FixedOrderNoRetry ==
    /\ \A k \in 1..Len(Effects) :
          /\ IsStep(Effects[k], k)
          /\ k < Len(Effects) => Effects[k].ok
    /\ \A k \in 1..Len(Effects) : (~Effects[k].ok) => (exit.some /\ ~exit.value.ok)

\* a run in which every step succeeded up to the pull-request request
C16_Witness ==
    /\ Len(Effects) = 5
    /\ \A k \in 1..5 : Effects[k].ok
    /\ exit = Some(Ok(0))

\* the strategy an answer comes from; the key-file strategy answers with the
\* key file, or with the home-directory error when HOME is not set
StrategyOf(cred) ==
    IF cred.ok THEN cred.value.kind
    ELSE IF NoHomeDirectory(cred) THEN "ssh_key"
    ELSE "none"

\* the first strategy of the order that the allowed types and the flag admit
FirstApplicable(allowed_types, tried_agent) ==
    IF "SSH_KEY" \in allowed_types
    THEN IF tried_agent THEN "ssh_key" ELSE "ssh_key_from_agent"
    ELSE IF "USER_PASS_PLAINTEXT" \in allowed_types THEN "credential_helper"
    ELSE IF "DEFAULT" \in allowed_types THEN "default"
    ELSE "none"

\* C17: each credential request is answered by the first applicable strategy
\* of the order SSH key (agent, then key file), credential helper, default,
\* as the allowed types and the tried-agent flag alone decide; with none of
\* the three types allowed the answer is the error 'no authentication
\* available'; a request without SSH_KEY allowed leaves the flag as it was.
C17_FirstApplicableStrategy ==
    [][locals'.cred_calls = locals.cred_calls + 1 =>
          LET allowed_types == locals'.last_allowed
              cred == locals'.last_cred.value
          IN  /\ StrategyOf(cred) = FirstApplicable(allowed_types, locals.tried_agent)
              /\ allowed_types \cap CredentialTypes = {} =>
                    cred = Err("no authentication available", <<>>)
              /\ "SSH_KEY" \in allowed_types => locals'.tried_agent
              /\ "SSH_KEY" \notin allowed_types =>
                    locals'.tried_agent = locals.tried_agent]_vars

\* with the flag set by an earlier request, a request with the two other
\* types allowed is answered by the credential helper
C17_Witness ==
    /\ locals.cred_calls = 2
    /\ locals.tried_agent
    /\ locals.last_allowed = {"USER_PASS_PLAINTEXT", "DEFAULT"}
    /\ locals.last_cred = Some(Ok([kind |-> "credential_helper"]))

\* the editor ended with a non-zero code or by a signal
EditorFailed ==
    {i \in 1..Len(log) :
        log[i].op = "editor" /\ log[i].outcome.kind \in {"exit_code", "signal"}}

\* the error of new_from_editor for such an end of the editor
EditorStatusError(outcome) ==
    IF outcome.kind = "exit_code"
    THEN Err("Editor '{}' exited with code '{}' after opening temporary file '{}'.",
             <<outcome.code>>)
    ELSE Err("Editor '{}' terminated by signal after opening temporary file '{}'.", <<>>)

\* C18: when the editor exits with a non-zero code or is ended by a signal,
\* getting the changeset fails with the error of that status whatever the
\* temporary file holds, no changeset is kept, and the run ends having
\* created no branch, pushed nothing and asked for no pull request.
C18_EditorFailureEndsRun ==
    \A i \in EditorFailed :
        /\ exit = Some(Err("Could not get changeset information from editor.",
                           <<EditorStatusError(log[i].outcome)>>))
        /\ ~locals.changeset.some
        /\ SideEffects = {}
        /\ runs = 1 => (branches = {} /\ remote = {} /\ pulls = <<>>)

\* the editor exited with code 1 leaving a text that parses in the file
C18_Witness ==
    /\ exit.some
    /\ \E i \in EditorFailed :
          /\ log[i].outcome.kind = "exit_code"
          /\ new_from_string(log[i].outcome.buf, locals.github_owner.value,
                             locals.github_repo_name.value).ok

\* C19: nothing is rolled back.  Every branch the run created is, from then
\* on, in the local repository at the commit it was created at, and every
\* branch the run pushed is on the remote at that commit, whatever failed
\* later in the run; and a run in which a step failed ends with an error.
C19_NoRollback ==
    /\ \A k \in 1..Len(Effects) :
          /\ (Effects[k].op = "branch" /\ Effects[k].ok) =>
                <<Effects[k].name, Effects[k].target>> \in branches
          /\ (Effects[k].op = "push" /\ Effects[k].ok) =>
                \E b \in branches : b[1] = Effects[k].name /\ b \in remote
    /\ (exit.some /\ \E k \in 1..Len(Effects) : ~Effects[k].ok) => ~exit.value.ok

\* the push of the head branch failed after the base branch was pushed
C19_Witness ==
    /\ exit.some
    /\ ~exit.value.ok
    /\ Len(Effects) = 4
    /\ Effects[2].ok
    /\ ~Effects[4].ok
    /\ \E b \in remote : b[1] = StackBranch(pr_base_branch_postfix)

\* the run is a re-run on the same HEAD and USER, and the head branch is in
\* the repository from an earlier run: this run did not create it
HeadBranchFromEarlierRun ==
    /\ runs > 1
    /\ branches # {}
    /\ HasBranch(branches, StackBranch(pr_head_branch_postfix))
    /\ \A k \in 1..Len(Effects) :
          ~(/\ Effects[k].op = "branch"
            /\ Effects[k].name = StackBranch(pr_head_branch_postfix)
            /\ Effects[k].ok)

\* C20: a re-run on an unchanged HEAD and USER after a run that created the
\* head branch uses the same two names, overwrites the base branch that is
\* there and pushes no other branch, fails at the creation of the head
\* branch when it comes to it, and asks for no pull request; over all the
\* runs on one HEAD at most one pull request is created.
C20_RerunStopsAtHeadBranch ==
    /\ Len(pulls) <= 1
    /\ HeadBranchFromEarlierRun =>
          /\ \A k \in 1..Len(Effects) :
                LET e == Effects[k]
                IN  /\ e.op # "create"
                    /\ e.op = "push" => e.name = StackBranch(pr_base_branch_postfix)
                    /\ e.op = "branch" =>
                          /\ e.existed
                          /\ IF e.name = StackBranch(pr_base_branch_postfix)
                             THEN e.ok /\ <<e.name, e.target>> \in branches
                             ELSE /\ e.name = StackBranch(pr_head_branch_postfix)
                                  /\ ~e.ok
                                  /\ exit = Some(Err("Could not create branch at head '{}'",
                                                     <<e.target>>))
          /\ exit.some => ~exit.value.ok

\* the second run, after a first that created the pull request, overwrote
\* and pushed the base branch and stopped at the head branch
C20_Witness ==
    /\ runs = 2
    /\ Len(pulls) = 1
    /\ HeadBranchFromEarlierRun
    /\ Len(Effects) = 3
    /\ Effects[1].existed /\ Effects[1].ok
    /\ Effects[2].ok
    /\ ~Effects[3].ok

\* the error of a run without GITHUB_TOKEN
NoTokenError == Err("No GITHUB_TOKEN environment variable found.", <<>>)

\* what run_up checks ahead of the token: USER, the repository, the origin
\* remote, its url and the shape of the url
ChecksBeforeTokenPass ==
    /\ env.USER.some
    /\ repo.some
    /\ repo.value.origin.some
    /\ repo.value.origin.value.url.some
    /\ OriginCaptures(repo.value.origin.value.url.value).some

\* C21: without GITHUB_TOKEN a run never gets past the reading of the token:
\* the editor is not launched, HEAD is not read, no branch is created or
\* pushed and no pull request asked for; the run ends with an error, which
\* is the error of the missing token exactly when USER, the repository, the
\* origin remote and the shape of its url passed their checks, these being
\* made before the token is read.
C21_TokenGate ==
    (pc # "idle" /\ ~env.GITHUB_TOKEN.some) =>
        /\ pc \in {"user", "discover", "find_remote", "origin_url", "captures",
                   "token", "exit"}
        /\ log = <<>>
        /\ ~locals.changeset.some
        /\ ~locals.head_commit.some
        /\ branches = {} /\ remote = {} /\ pulls = <<>>
        /\ exit.some =>
              /\ ~exit.value.ok
              /\ exit.value = NoTokenError <=> ChecksBeforeTokenPass

\* a run with USER, repository and origin in order ended at the missing token
C21_Witness ==
    /\ ~env.GITHUB_TOKEN.some
    /\ ChecksBeforeTokenPass
    /\ exit = Some(NoTokenError)
    /\ log = <<>>

====
